---------------------------- MODULE Spec2Model ----------------------------
(***************************************************************************)
(* secrets.example.h: a header of three object-like macros behind a        *)
(* #pragma once guard.  The model is the C preprocessor working through    *)
(* the header's text, character by character and then line by line, for a  *)
(* translation unit that includes the header up to MaxIncludes times.      *)
(* The state is the preprocessor's: its position in the file, the line     *)
(* read so far, the macro table, the include-once mark of the file and     *)
(* the text passed on to the compiler proper.                              *)
(***************************************************************************)
EXTENDS Integers, Sequences, FiniteSets, TLC

\* How many #include directives of the header the translation unit holds.
MaxIncludes == 3

(***************************************************************************)
(* The header, line for line.  A line may be preceded by a variant of it:  *)
(* the line as a slip of the hand would leave it (the guard dropped, a     *)
(* value emptied, a name repeated, a real value committed, a macro added,  *)
(* the scheme changed).  The header itself is made of the lines as they    *)
(* are in the file.                                                        *)
(***************************************************************************)
Line01 == "// secrets.example.h"
Line02 == "// Copy to secrets.h and fill in your real credentials. Do NOT commit secrets.h to source control."
Line03 == ""
Line04NoGuard == ""
Line04 == "#pragma once"
Line05 == ""
Line06 == "// Wi-Fi credentials"
Line07RealSsid == "#define WIFI_SSID \"HomeNet-5G\""
Line07 == "#define WIFI_SSID \"YOUR_WIFI_SSID\""
Line08EmptyPass == "#define WIFI_PASS \"\""
Line08WrongName == "#define WIFI_SSID \"YOUR_WIFI_PASSWORD\""
Line08 == "#define WIFI_PASS \"YOUR_WIFI_PASSWORD\""
Line09 == ""
Line10ExtraMacro == "#define WEBHOOK_EVENT \"water_detected\""
Line10 == "// Webhook URL to call when water is detected"
Line11PlainHttp == "#define WEBHOOK_URL \"http://maker.ifttt.com/trigger/water_detected/with/key/YOUR_IFTTT_KEY\""
Line11 == "#define WEBHOOK_URL \"https://maker.ifttt.com/trigger/water_detected/with/key/YOUR_IFTTT_KEY\""

Header ==
    << Line01, Line02, Line03, Line04, Line05, Line06,
       Line07, Line08, Line09, Line10, Line11 >>

\* The three names the header is about.
ConstNames == { "WIFI_SSID", "WIFI_PASS", "WEBHOOK_URL" }

(***************************************************************************)
(* Lexing of one line, as the preprocessor does it.                        *)
(***************************************************************************)
Ch(s, i) == SubSeq(s, i, i)

IsSpace(c) == c = " " \/ c = "\t"

IdChars ==
    { "A", "B", "C", "D", "E", "F", "G", "H", "I", "J", "K", "L", "M",
      "N", "O", "P", "Q", "R", "S", "T", "U", "V", "W", "X", "Y", "Z",
      "a", "b", "c", "d", "e", "f", "g", "h", "i", "j", "k", "l", "m",
      "n", "o", "p", "q", "r", "s", "t", "u", "v", "w", "x", "y", "z",
      "0", "1", "2", "3", "4", "5", "6", "7", "8", "9", "_" }

\* The first position at or after i that holds no white space.
RECURSIVE SkipSpaces(_, _)
SkipSpaces(s, i) ==
    IF i <= Len(s) /\ IsSpace(Ch(s, i)) THEN SkipSpaces(s, i + 1) ELSE i

\* The first position at or after i that holds no identifier character.
RECURSIVE IdentEnd(_, _)
IdentEnd(s, i) ==
    IF i <= Len(s) /\ Ch(s, i) \in IdChars THEN IdentEnd(s, i + 1) ELSE i

\* s without its trailing white space.
RECURSIVE RTrim(_)
RTrim(s) ==
    IF Len(s) > 0 /\ IsSpace(Ch(s, Len(s)))
    THEN RTrim(SubSeq(s, 1, Len(s) - 1))
    ELSE s

\* The lexer's step on character c, read in mode m with d the character
\* after it: a // outside a string literal starts a comment that runs to
\* the end of the line; a // inside a literal starts none; a backslash
\* inside a literal escapes the character after it.
LexMode(m, c, d) ==
    CASE m = "comment" -> "comment"
      [] m = "escape"  -> "string"
      [] m = "string"  -> IF c = "\\" THEN "escape"
                          ELSE IF c = "\"" THEN "code" ELSE "string"
      [] OTHER         -> IF c = "\"" THEN "string"
                          ELSE IF c = "/" /\ d = "/" THEN "comment" ELSE "code"

\* The line's text with the white space around it removed.
LineText(s) ==
    LET t == RTrim(s)
    IN  SubSeq(t, SkipSpaces(t, 1), Len(t))

IsDirective(t) == Len(t) > 0 /\ Ch(t, 1) = "#"

\* The directive's name: the identifier after the #.
DirName(t) ==
    LET a == SkipSpaces(t, 2)
    IN  SubSeq(t, a, IdentEnd(t, a) - 1)

\* What follows the directive's name.
DirArgs(t) ==
    LET a == SkipSpaces(t, 2)
        b == IdentEnd(t, a)
    IN  SubSeq(t, SkipSpaces(t, b), Len(t))

\* #define NAME body: the macro's name and its replacement list.
DefineName(t) == LET a == DirArgs(t) IN SubSeq(a, 1, IdentEnd(a, 1) - 1)

DefineBody(t) ==
    LET a == DirArgs(t)
    IN  SubSeq(a, SkipSpaces(a, IdentEnd(a, 1)), Len(a))

IsPragmaOnce(t) == IsDirective(t) /\ DirName(t) = "pragma" /\ DirArgs(t) = "once"

IsDefine(t) == IsDirective(t) /\ DirName(t) = "define" /\ DefineName(t) # ""

(***************************************************************************)
(* String literals.                                                        *)
(***************************************************************************)
\* The character at i is escaped: an odd number of backslashes precedes it.
Escaped(v, i) ==
    Cardinality({ j \in 1..(i - 1) : \A m \in j..(i - 1) : Ch(v, m) = "\\" }) % 2 = 1

\* v is one string literal: a quote, characters none of which is an
\* unescaped quote, and the closing quote.
IsStringLiteral(v) ==
    /\ Len(v) >= 2
    /\ Ch(v, 1) = "\""
    /\ Ch(v, Len(v)) = "\"" /\ ~Escaped(v, Len(v))
    /\ \A i \in 2..(Len(v) - 1) : Ch(v, i) = "\"" => Escaped(v, i)

\* The characters between the quotes.
StringContents(v) == SubSeq(v, 2, Len(v) - 1)

(***************************************************************************)
(* The preprocessor's state.                                               *)
(***************************************************************************)
VARIABLES
    pc,          \* "tu": in the including file; "file": inside the header
    includes,    \* #include directives of the header processed so far
    lineNo,      \* the header line being read
    col,         \* the next column of that line
    mode,        \* the lexer's mode: "code", "string", "escape", "comment"
    buf,         \* the line read so far, its comment left out
    macros,      \* the macro table: name |-> replacement list
    once,        \* the header is marked include-once
    redefs,      \* #defines that met a name already in the table
    out,         \* text passed on to the compiler proper
    afterFirst   \* the macro table as the first inclusion left it

vars == << pc, includes, lineNo, col, mode, buf, macros, once, redefs, out, afterFirst >>

NoMacros == [n \in {} |-> ""]

Init ==
    /\ pc = "tu"
    /\ includes = 0
    /\ lineNo = 0
    /\ col = 0
    /\ mode = "code"
    /\ buf = ""
    /\ macros = NoMacros
    /\ once = FALSE
    /\ redefs = 0
    /\ out = ""
    /\ afterFirst = NoMacros

\* #include of the header: the file is entered at its first line.
Include ==
    /\ pc = "tu"
    /\ includes < MaxIncludes
    /\ ~once
    /\ pc' = "file"
    /\ includes' = includes + 1
    /\ lineNo' = 1
    /\ col' = 1
    /\ mode' = "code"
    /\ buf' = ""
    /\ UNCHANGED << macros, once, redefs, out, afterFirst >>

\* #include of a header marked include-once: the file is not entered
\* (#pragma once as every compiler for the target implements it).
SkipInclude ==
    /\ pc = "tu"
    /\ includes < MaxIncludes
    /\ once
    /\ includes' = includes + 1
    /\ UNCHANGED << pc, lineNo, col, mode, buf, macros, once, redefs, out, afterFirst >>

AtLine == pc = "file" /\ lineNo <= Len(Header)

LineDone == AtLine /\ col > Len(Header[lineNo])

NextLine ==
    /\ lineNo' = lineNo + 1
    /\ col' = 1
    /\ mode' = "code"
    /\ buf' = ""

\* One more character of the current line: kept unless it is part of a
\* comment.
ReadChar ==
    /\ AtLine
    /\ col <= Len(Header[lineNo])
    /\ LET line == Header[lineNo]
           c == Ch(line, col)
           d == IF col < Len(line) THEN Ch(line, col + 1) ELSE ""
       IN  /\ mode' = LexMode(mode, c, d)
           /\ buf' = IF mode' = "comment" THEN buf ELSE buf \o c
    /\ col' = col + 1
    /\ UNCHANGED << pc, includes, lineNo, macros, once, redefs, out, afterFirst >>

\* A line that is no directive: what is left of it without its comment
\* goes to the compiler.
EmitText ==
    /\ LineDone
    /\ ~IsDirective(LineText(buf))
    /\ out' = out \o LineText(buf)
    /\ NextLine
    /\ UNCHANGED << pc, includes, macros, once, redefs, afterFirst >>

\* #pragma once: the file is marked, and read on to its end.
ExecPragmaOnce ==
    /\ LineDone
    /\ IsPragmaOnce(LineText(buf))
    /\ once' = TRUE
    /\ NextLine
    /\ UNCHANGED << pc, includes, macros, redefs, out, afterFirst >>

\* #define NAME body: the table maps NAME to body from here on.
ExecDefine ==
    /\ LineDone
    /\ IsDefine(LineText(buf))
    /\ LET t == LineText(buf)
           name == DefineName(t)
       IN  /\ macros' = [n \in DOMAIN macros \cup {name} |->
                            IF n = name THEN DefineBody(t) ELSE macros[n]]
           /\ redefs' = IF name \in DOMAIN macros THEN redefs + 1 ELSE redefs
    /\ NextLine
    /\ UNCHANGED << pc, includes, once, out, afterFirst >>

\* The end of the header: back to the including file.  afterFirst keeps
\* the table of the first inclusion, to compare later inclusions with.
EndOfFile ==
    /\ pc = "file"
    /\ lineNo > Len(Header)
    /\ pc' = "tu"
    /\ afterFirst' = IF includes = 1 THEN macros ELSE afterFirst
    /\ UNCHANGED << includes, lineNo, col, mode, buf, macros, once, redefs, out >>

Next ==
    \/ Include
    \/ SkipInclude
    \/ ReadChar
    \/ EmitText
    \/ ExecPragmaOnce
    \/ ExecDefine
    \/ EndOfFile

Spec == Init /\ [][Next]_vars

TypeOK ==
    /\ pc \in { "tu", "file" }
    /\ includes \in 0..MaxIncludes
    /\ lineNo \in 0..(Len(Header) + 1)
    /\ mode \in { "code", "string", "escape", "comment" }
    /\ once \in BOOLEAN
    /\ redefs \in Nat

\* The header has been included at least once and read to its end.
Included == pc = "tu" /\ includes >= 1


(***************************************************************************)
(* Operators on strings used to state the properties.                      *)
(***************************************************************************)
\* p occurs in s.
Contains(s, p) ==
    \E i \in 1..(Len(s) - Len(p) + 1) : SubSeq(s, i, i + Len(p) - 1) = p

StartsWith(s, p) == Len(p) <= Len(s) /\ SubSeq(s, 1, Len(p)) = p

EndsWith(s, p) == Len(p) <= Len(s) /\ SubSeq(s, Len(s) - Len(p) + 1, Len(s)) = p

\* The positions of the slashes of s, and the k-th of them.
Slashes(s) == { i \in 1..Len(s) : Ch(s, i) = "/" }

SlashAt(s, k) ==
    CHOOSE i \in Slashes(s) : Cardinality({ j \in Slashes(s) : j < i }) = k - 1

\* s split at its slashes.
Segments(s) ==
    LET n == Cardinality(Slashes(s))
    IN  [ k \in 1..(n + 1) |->
            SubSeq(s,
                   IF k = 1 THEN 1 ELSE SlashAt(s, k - 1) + 1,
                   IF k = n + 1 THEN Len(s) ELSE SlashAt(s, k) - 1) ]

\* s with every occurrence of pat replaced by rep.
RECURSIVE ReplaceAll(_, _, _)
ReplaceAll(s, pat, rep) ==
    IF ~Contains(s, pat) THEN s
    ELSE LET i == CHOOSE a \in 1..Len(s) :
                      /\ SubSeq(s, a, a + Len(pat) - 1) = pat
                      /\ \A b \in 1..(a - 1) : SubSeq(s, b, b + Len(pat) - 1) # pat
         IN  SubSeq(s, 1, i - 1) \o rep
                 \o ReplaceAll(SubSeq(s, i + Len(pat), Len(s)), pat, rep)

\* The value of a defined constant: the characters of its string literal.
ValueOf(n) == StringContents(macros[n])

\* The placeholder each constant ships with.
Placeholder(n) ==
    CASE n = "WIFI_SSID"   -> "YOUR_WIFI_SSID"
      [] n = "WIFI_PASS"   -> "YOUR_WIFI_PASSWORD"
      [] n = "WEBHOOK_URL" -> "YOUR_IFTTT_KEY"

\* Keys a user may put in the placeholder's place.
SampleKeys == { "k", "dQw4w9WgXcQ_r1", "bX-3_zz" }

(***************************************************************************)
(* The properties.                                                         *)
(***************************************************************************)

C2_ExactlyThree ==
    /\ DOMAIN macros \subseteq ConstNames
    /\ out = ""
    /\ Included => DOMAIN macros = ConstNames

C2_Witness == Included /\ Cardinality(DOMAIN macros) = 3 /\ out = ""

\* C3: no step reads, writes, undefines or redefines a constant: every
\* step leaves each defined constant defined, with the value it had.
C3_NeverChanged ==
    [][\A n \in DOMAIN macros : n \in DOMAIN macros' /\ macros'[n] = macros[n]]_vars

C3_Witness ==
    /\ pc = "tu"
    /\ includes = 2
    /\ \A n \in ConstNames : n \in DOMAIN macros /\ macros[n] = afterFirst[n]

C6_IncludeIdempotent ==
    /\ redefs = 0
    /\ Included => macros = afterFirst /\ DOMAIN afterFirst = ConstNames

C6_Witness ==
    /\ pc = "tu"
    /\ includes = MaxIncludes
    /\ once
    /\ redefs = 0
    /\ macros = afterFirst
    /\ DOMAIN macros = ConstNames

\* C7: WEBHOOK_URL is an https URL of the IFTTT maker trigger form: it
\* starts with https://maker.ifttt.com/trigger/, names the event
\* water_detected, ends with /with/key/ and the key placeholder as its last
\* path segment, and replacing the key placeholder changes that last
\* segment only (scheme, host and event stay).
C7_WebhookForm ==
    "WEBHOOK_URL" \in DOMAIN macros =>
        LET url == ValueOf("WEBHOOK_URL")
        IN  /\ StartsWith(url, "https://maker.ifttt.com/trigger/")
            /\ EndsWith(url, "/with/key/" \o Placeholder("WEBHOOK_URL"))
            /\ Segments(url) = << "https:", "", "maker.ifttt.com", "trigger",
                                  "water_detected", "with", "key",
                                  "YOUR_IFTTT_KEY" >>
            /\ \A k \in SampleKeys :
                   Segments(ReplaceAll(url, Placeholder("WEBHOOK_URL"), k))
                       = [Segments(url) EXCEPT ![Len(Segments(url))] = k]

C7_Witness ==
    /\ Included
    /\ "WEBHOOK_URL" \in DOMAIN macros
    /\ Segments(ValueOf("WEBHOOK_URL"))[5] = "water_detected"
    /\ Segments(ReplaceAll(ValueOf("WEBHOOK_URL"), "YOUR_IFTTT_KEY", "k"))[8] = "k"

=============================================================================
